---- MODULE Spec2Model ----
(***************************************************************************)
(* State-machine model of graph_transformation.mpls2graph: the lowering of *)
(* a P-Rex network model and a parsed query into one typed networkx graph. *)
(* One action per step of mpls2graph / build_labels_graph_repr; the graph  *)
(* operations follow networkx.Graph (add_node updates the attributes of an *)
(* existing key, add_edge creates missing endpoints without attributes and *)
(* raises TypeError on an unhashable endpoint such as a list).             *)
(***************************************************************************)
EXTENDS Integers, Sequences, FiniteSets, TLC

VARIABLES
    net,          \* the network model handed to mpls2graph
    maxq,         \* number of atoms the query of this run may hold
    query,        \* the parsed query AST (constr, netw, destr) and k
    G,            \* the networkx graph under construction
    pc,           \* position of mpls2graph
    ri,           \* index of the destination being encoded (line 171)
    aj,           \* index of the action being encoded (line 179); 0 before the rule node exists
    lastr,        \* `last` of the forwarding loop (line 178)
    last,         \* `last` of the query part (lines 215-270): a node or a list
    lastnode,     \* build_labels_graph_repr: lastnode
    par_nodes,    \* build_labels_graph_repr: par_nodes
    lastatom,     \* build_labels_graph_repr: class of lastatom
    branch_next,  \* build_labels_graph_repr: branch_next
    pos,          \* index of the next atom of the pattern being walked
    err,          \* the exception that left mpls2graph, "none" if none
    queries,      \* prepare_dataset: the queries of the json file, in order
    workers,      \* prepare_dataset: the worker processes started so far
    qwork,        \* the manager queue of queries <<i>> and None sentinels
    qresults,     \* the manager queue of results
    mpc,          \* position of the main process in prepare_dataset
    nqueries,     \* prepare_dataset: nqueries
    dataset,      \* prepare_dataset: dataset
    nsent,        \* prepare_dataset: None sentinels put so far (line 163)
    njoined,      \* prepare_dataset: workers joined so far (line 170)
    wpc,          \* position of each graph2torch_worker process
    wquery        \* graph2torch_worker: the query (an index of queries) it holds

vars == <<net, maxq, query, G, pc, ri, aj, lastr, last, lastnode, par_nodes,
          lastatom, branch_next, pos, err>>

poolVars == <<queries, workers, qwork, qresults, mpc, nqueries, dataset, nsent,
              njoined, wpc, wquery>>

\* ------------------------------------------------------------------ bounds
\* total number of atoms of a query (constructing + router path + destructing)
MaxAtoms == 3
\* length of a rule's action list
MaxActions == 2
\* failure budget k ranges over 0..MaxK
MaxK == 1
\* most worker processes started (mp.cpu_count())
MaxWorkers == 2
\* most queries of one json file
MaxQueries == 2

\* ------------------------------------------------------------ node keys
\* networkx keys nodes by hash/equality: domain objects and AST atoms by
\* identity, strings by value.  A key is <<kind, s1, s2, i, j>>.
Key(kind, s1, s2, i, j) == <<kind, s1, s2, i, j>>
RouterKey(r) == Key("router", r, "", 0, 0)
IfaceKey(r, i) == Key("iface", r, i, 0, 0)
LabelKey(l) == Key("label", l, "", 0, 0)
NoLabelKey == Key("nolabel", "", "", 0, 0)
RuleKey(r, i) == Key("rule", r, "", i, 0)
ActionKey(r, i, j) == Key("action", r, "", i, j)
StrKey(s) == Key("str", s, "", 0, 0)
QueryKey == Key("NodeType.Query", "", "", 0, 0)
\* the atom at position p of a pattern, and the atom a quantified atom wraps
AtomKey(part, p) == Key("atom", part, "", p, 0)
InnerKey(part, p) == Key("atom", part, "inner", p, 0)

NodeType == {"Router", "Interface", "Label", "Rule", "PushAction", "SwapAction",
             "PopAction", "Query", "QueryAtom", "Any", "OneOrMore", "ZeroOrMore"}

\* a value of `last` / `lastnode`: one node, or a Python list of nodes
Single(k) == [list |-> FALSE, ns |-> <<k>>]
List(s) == [list |-> TRUE, ns |-> s]
Range(s) == {s[i] : i \in DOMAIN s}

\* ------------------------------------------------------- networkx.Graph
EmptyGraph == [node |-> <<>>, edge |-> {}]
\* the attributes of a node that add_edge created: none (k is held as <<>> or <<k>>)
NoAttrs == [ntype |-> "none", nlabel |-> "", k |-> <<>>]

HasNode(g, key) == key \in DOMAIN g.node

\* G.add_node(key, ntype=t, nlabel=l): creates the node, or updates the
\* attributes of the node the key already names
add_node(g, key, t, l) ==
    LET old == IF HasNode(g, key) THEN g.node[key] ELSE NoAttrs
        new == [old EXCEPT !.ntype = t, !.nlabel = l]
    IN  [g EXCEPT !.node = [x \in DOMAIN g.node \cup {key} |->
                               IF x = key THEN new ELSE g.node[x]]]

\* G.add_node(key, ..., k=k)
add_node_k(g, key, t, l, kk) ==
    LET h == add_node(g, key, t, l)
    IN  [h EXCEPT !.node[key].k = <<kk>>]

\* G.add_edge(u, v) for hashable u, v: missing endpoints are created bare
add_edge(g, u, v) ==
    [node |-> [x \in DOMAIN g.node \cup {u, v} |->
                  IF x \in DOMAIN g.node THEN g.node[x] ELSE NoAttrs],
     edge |-> g.edge \cup {{u, v}}]

HasEdge(g, u, v) == {u, v} \in g.edge
Neighbors(g, u) == {v \in DOMAIN g.node : {u, v} \in g.edge}

\* a graph together with the exception raised while changing it
Ok(g) == [G |-> g, err |-> "none"]
Raise(g, e) == [G |-> g, err |-> e]

\* G.add_edge(ref, v) where ref is what `last`/`lastnode` holds: a list is
\* unhashable, and networkx raises TypeError before it changes anything
add_edge_from(g, ref, v) ==
    IF ref.list THEN Raise(g, "TypeError") ELSE Ok(add_edge(g, ref.ns[1], v))

RECURSIVE add_edges_seq(_, _, _)
add_edges_seq(g, s, v) ==
    IF s = <<>> THEN g ELSE add_edges_seq(add_edge(g, Head(s), v), Tail(s), v)

\* if isinstance(last, list): for l in last: G.add_edge(l, atom)
\* else: G.add_edge(last, atom)
link_last(g, ref, v) ==
    IF ref.list THEN add_edges_seq(g, ref.ns, v) ELSE add_edge(g, ref.ns[1], v)

\* ------------------------------------------------------- the network model
\* prex.prnml.model objects, as mpls2graph reads them: a router has a name
\* and interfaces; a destination has te_groups, each a list of rules; a rule
\* has from_, label ("" is model.NoLabel), actions and to.
Iface(r, i) == <<r, i>>
Action(kind, l) == [kind |-> kind, label |-> l]
Rule(f, l, acts, t) == [from_ |-> f, label |-> l, actions |-> acts, to |-> t]
Dest(r, groups) == [rtr |-> r, te_groups |-> groups]

Routers == << [name |-> "R1", interfaces |-> <<"i0", "i1">>],
              [name |-> "R2", interfaces |-> <<"i0", "i1">>] >>
Links == { <<Iface("R1", "i1"), Iface("R2", "i0")>> }

SeqsUpTo(S, n) == UNION {[1..m -> S] : m \in 0..n}

ActionKinds == {Action("PushAction", "L2"), Action("SwapAction", "L2"),
                Action("PopAction", ""), Action("Other", "")}

\* the rules the first destination of R1 may hold as its primary rule
PrimaryRules ==
    {Rule(Iface("R1", "i0"), l, acts, Iface("R1", t)) :
        l \in {"", "L1"}, acts \in SeqsUpTo(ActionKinds, MaxActions), t \in {"i0", "i1"}}

BackupRule == Rule(Iface("R1", "i0"), "L1", <<Action("PopAction", "")>>, Iface("R1", "i0"))

\* further destinations: a second one on R1 and one on R2, with backup
\* rules and groups that mpls2graph does not encode
MoreDests ==
    << Dest("R1", << <<Rule(Iface("R1", "i1"), "L2", <<Action("PopAction", "")>>, Iface("R1", "i0")),
                       BackupRule>> >>),
       Dest("R2", << <<Rule(Iface("R2", "i0"), "L2",
                            <<Action("PushAction", "L1"), Action("SwapAction", "L1")>>,
                            Iface("R2", "i1"))>>,
                     <<BackupRule>> >>) >>

\* rule = dest.te_groups[0].rules[0]
PrimaryRule(dest) == dest.te_groups[1][1]

\* net.routing.collect_labels(): every label the routing configuration uses
collect_labels(dests) ==
    LET groups == UNION {Range(dests[d].te_groups) : d \in DOMAIN dests}
        rules == UNION {Range(g) : g \in groups}
    IN  UNION {({ru.label} \cup {ru.actions[j].label : j \in DOMAIN ru.actions}) \ {""}
               : ru \in rules}

Network(dests) == [routers |-> Routers, links |-> Links, dests |-> dests,
                   labels |-> collect_labels(dests)]

\* the network of the end-to-end scenario: one rule on R1.i0 swapping L1 to
\* L2 and forwarding out of R1.i1
BaseNet ==
    Network(<< Dest("R1", << <<Rule(Iface("R1", "i0"), "L1",
                                    <<Action("SwapAction", "L2")>>, Iface("R1", "i1"))>> >>) >>)

Nets == {Network(<<Dest("R1", << <<r, BackupRule>> >>)>> \o more) :
            r \in PrimaryRules, more \in {<<>>, MoreDests}}

\* --------------------------------------------------------- the query AST
Atom(t, q, inner, sym) == [t |-> t, q |-> q, inner |-> inner, sym |-> sym]
SimpleAtom(s) == Atom("ASimpleAtom", "", "", s)
AnyAtom == Atom("AAnyAtom", "", "", "")
QuantAtom(q, inner, s) == Atom("AQuantifiedAtom", q, inner, s)
OtherAtom == Atom("Other", "", "", "")

\* atoms of a constructing / destructing pattern: L1 is a label of the
\* network, L9 occurs in the query only
LabelAtoms ==
    {SimpleAtom("L1"), SimpleAtom("L9"), AnyAtom, OtherAtom,
     QuantAtom("AOneOrMoreQuantifier", "ASimpleAtom", "L9"),
     QuantAtom("AZeroOrMoreQuantifier", "ASimpleAtom", "L9"),
     QuantAtom("AZeroOrMoreQuantifier", "AAnyAtom", ""),
     QuantAtom("AOneOrMoreQuantifier", "AAnyAtom", "")}

\* atoms of the router path: R1 is a router of the topology, RX and "empty"
\* are not
NetAtoms ==
    {SimpleAtom("R1"), SimpleAtom("RX"), SimpleAtom("empty"), AnyAtom, OtherAtom,
     QuantAtom("AOneOrMoreQuantifier", "ASimpleAtom", "R1"),
     QuantAtom("AZeroOrMoreQuantifier", "AAnyAtom", ""),
     QuantAtom("AOneOrMoreQuantifier", "AAnyAtom", "")}

\* getConstructing() / getDestructing() of an empty `<>` is None; a parsed
\* pattern holds at least one atom
None == <<>>

NoQuery == [constr |-> None, netw |-> <<>>, destr |-> None, k |-> 0]

\* the shapes (lengths of the three patterns) of the queries of at most n atoms
Shapes(n) ==
    {sh \in (0..n) \X (0..n) \X (0..n) : sh[1] + sh[2] + sh[3] <= n}

\* ------------------------------------------------- topology (lines 150-162)
RECURSIVE EncodeInterfaces(_, _, _)
EncodeInterfaces(g, rtr, ifs) ==
    IF ifs = <<>> THEN g
    ELSE LET iface == IfaceKey(rtr, Head(ifs))
             g1 == add_node(g, iface, "Interface", "intf:" \o rtr \o ":" \o Head(ifs))
             g2 == add_edge(g1, RouterKey(rtr), iface)
         IN  EncodeInterfaces(g2, rtr, Tail(ifs))

RECURSIVE EncodeRouters(_, _)
EncodeRouters(g, rtrs) ==
    IF rtrs = <<>> THEN g
    ELSE LET rtr == Head(rtrs)
             g1 == add_node(g, RouterKey(rtr.name), "Router", "router:" \o rtr.name)
         IN  EncodeRouters(EncodeInterfaces(g1, rtr.name, rtr.interfaces), Tail(rtrs))

RECURSIVE EncodeLinks(_, _)
EncodeLinks(g, lnks) ==
    IF lnks = {} THEN g
    ELSE LET lnk == CHOOSE l \in lnks : TRUE
         IN  EncodeLinks(add_edge(g, IfaceKey(lnk[1][1], lnk[1][2]), IfaceKey(lnk[2][1], lnk[2][2])),
                         lnks \ {lnk})

\* name2router: the names of the routers of the topology
name2router(n) == {n.routers[i].name : i \in DOMAIN n.routers}

\* --------------------------------------------------- labels (lines 164-167)
RECURSIVE EncodeLabelSet(_, _)
EncodeLabelSet(g, lbls) ==
    IF lbls = {} THEN g
    ELSE LET lbl == CHOOSE l \in lbls : TRUE
         IN  EncodeLabelSet(add_node(g, LabelKey(lbl), "Label", "label:" \o lbl), lbls \ {lbl})

EncodeLabels(g, n) ==
    EncodeLabelSet(add_node(g, NoLabelKey, "Label", "label:none"), n.labels)

\* ----------------------------------------- forwarding rules (lines 169-199)
\* i: the position of destination d in its router's table
RuleIndex(dests, d) == Cardinality({m \in 1..(d - 1) : dests[m].rtr = dests[d].rtr})

\* lines 172-178
EncodeRule(g, rtr, i, rule) ==
    LET key == RuleKey(rtr, i)
        g1 == add_node(g, key, "Rule", rtr \o ":rule" \o ToString(i))
        g2 == add_edge(g1, key, IfaceKey(rule.from_[1], rule.from_[2]))
    IN  IF rule.label # "" THEN add_edge(g2, key, LabelKey(rule.label)) ELSE g2

\* mutant of ChainFrom: `last` is never advanced past the rule
ChainFromRule(lastk, rulek) == rulek

\* the node the edge of line 194 starts from
ChainFrom(lastk, rulek) == lastk

ActionLabel(rtr, i, j, what) ==
    rtr \o ":rule" \o ToString(i) \o ":action" \o ToString(j) \o ":" \o what

\* lines 180-195, for action number j (0-based) of rule i of router rtr
EncodeAction(g, lastk, rtr, i, j, action) ==
    LET key == ActionKey(rtr, i, j)
        lbl == LabelKey(action.label)
        src == ChainFrom(lastk, RuleKey(rtr, i))
    IN  CASE action.kind = "PushAction" ->
               Ok(add_edge(add_edge(add_node(g, key, "PushAction", ActionLabel(rtr, i, j, "PUSH")),
                                    key, lbl), src, key))
          [] action.kind = "SwapAction" ->
               Ok(add_edge(add_edge(add_node(g, key, "SwapAction", ActionLabel(rtr, i, j, "SWAP")),
                                    key, lbl), src, key))
          [] action.kind = "PopAction" ->
               Ok(add_edge(add_node(g, key, "PopAction", ActionLabel(rtr, i, j, "POP")), src, key))
          [] OTHER -> Raise(g, "Unknown action type")

\* mutant of EnsureSymbols: the quantified atoms are passed over
EnsureSymbolsPlain(st) ==
    {st[p].sym : p \in {x \in DOMAIN st : st[x].t = "ASimpleAtom"}}

\* --------------------------------------- ensure_label_nodes (lines 31-53)
\* lines 38-48: the symbols of the atoms that name a label
EnsureSymbols(st) ==
    {st[p].sym : p \in {x \in DOMAIN st :
        \/ st[x].t = "ASimpleAtom"
        \/ st[x].t = "AQuantifiedAtom" /\ st[x].inner = "ASimpleAtom"}}

RECURSIVE AddMissingLabels(_, _)
AddMissingLabels(g, lbls) ==
    IF lbls = {} THEN g
    ELSE LET lbl == CHOOSE l \in lbls : TRUE
             g1 == IF HasNode(g, LabelKey(lbl)) THEN g
                   ELSE add_node(g, LabelKey(lbl), "Label", "label:" \o lbl)
         IN  AddMissingLabels(g1, lbls \ {lbl})

ensure_label_nodes(g, st) ==
    IF st = None THEN g ELSE AddMissingLabels(g, EnsureSymbols(st))

\* --------------------------------------- atom_label_to_node (lines 56-70)
\* the atom a quantified atom wraps (atom.getAtom())
Inner(atom) == Atom(atom.inner, "", "", atom.sym)

atom_label_to_node(g, atom, key) ==
    CASE atom.t = "ASimpleAtom" ->
           IF ~HasNode(g, LabelKey(atom.sym)) THEN Raise(g, "AssertionError")
           ELSE Ok(add_edge(add_node(g, key, "QueryAtom", "atom:label:" \o atom.sym),
                            key, LabelKey(atom.sym)))
      [] atom.t = "AAnyAtom" -> Ok(add_node(g, key, "Label", "atom:any"))
      [] OTHER -> Raise(g, "Unknown atom type")

\* ---------------------------------- build_labels_graph_repr (lines 73-134)
\* the locals of the call, and the exception it raised
Locals(g, e, ln, par, bn) ==
    [G |-> g, err |-> e, lastnode |-> ln, par_nodes |-> par, branch_next |-> bn]

\* mutant of LabelQuantifiedAny: the two tags are exchanged
LabelQuantifiedAnySwapped(q) ==
    IF q = "AZeroOrMoreQuantifier" THEN "OneOrMore" ELSE "ZeroOrMore"

\* lines 94-102: the tag of a quantified "any" atom of a label pattern
LabelQuantifiedAny(q) ==
    IF q = "AZeroOrMoreQuantifier" THEN "ZeroOrMore" ELSE "OneOrMore"

\* lines 94-102: G.add_node(atom, ...); G.add_edge(lastnode, atom); lastnode = atom
BuildQuantifiedAny(g, key, q, ln, par, bn) ==
    LET g1 == add_node(g, key, LabelQuantifiedAny(q),
                       IF q = "AZeroOrMoreQuantifier" THEN "atom:label:.*" ELSE "atom:label:.+")
        r == add_edge_from(g1, ln, key)
    IN  IF r.err # "none" THEN Locals(r.G, r.err, ln, par, bn)
        ELSE Locals(r.G, "none", Single(key), par, bn)

\* lines 104-108
BuildQuantifiedLabel(g, key, atom, ln, par, bn) ==
    LET a == atom_label_to_node(g, Inner(atom), key)
        r == IF a.err # "none" THEN a ELSE add_edge_from(a.G, ln, key)
    IN  IF r.err # "none" THEN Locals(r.G, r.err, ln, par, bn)
        ELSE Locals(r.G, "none", ln, Append(par, key), TRUE)

\* lines 88-111
BuildQuantified(g, part, p, atom, ln, par, la, bn) ==
    IF la = "ASimpleAtom" THEN Locals(g, "Case not covered by code", ln, par, bn)
    ELSE IF atom.q \in {"AZeroOrMoreQuantifier", "AOneOrMoreQuantifier"} /\ atom.inner = "AAnyAtom"
    THEN BuildQuantifiedAny(g, AtomKey(part, p), atom.q, ln, par, bn)
    ELSE IF atom.q = "AOneOrMoreQuantifier"
    THEN BuildQuantifiedLabel(g, InnerKey(part, p), atom, ln, par, bn)
    ELSE Locals(g, "Unknown quantifier type", ln, par, bn)

\* lines 113-128
BuildPlain(g, key, atom, ln, par, bn) ==
    LET a == atom_label_to_node(g, atom, key)
    IN  IF a.err # "none" THEN Locals(a.G, a.err, ln, par, bn)
        ELSE IF bn
        THEN LET r == add_edge_from(a.G, ln, key)
             IN  IF r.err # "none" THEN Locals(r.G, r.err, ln, par, bn)
                 ELSE Locals(r.G, "none", ln, Append(par, key), FALSE)
        ELSE IF Len(par) > 0
        THEN Locals(add_edges_seq(a.G, par, key), "none", Single(key), <<>>, bn)
        ELSE LET r == add_edge_from(a.G, ln, key)
             IN  IF r.err # "none" THEN Locals(r.G, r.err, ln, par, bn)
                 ELSE Locals(r.G, "none", Single(key), par, bn)

\* one iteration of the loop of line 87
BuildAtom(g, part, p, atom, ln, par, la, bn) ==
    IF atom.t = "AQuantifiedAtom"
    THEN BuildQuantified(g, part, p, atom, ln, par, la, bn)
    ELSE BuildPlain(g, AtomKey(part, p), atom, ln, par, bn)

\* lines 79-82
BuildEmpty(g, ln) ==
    add_edge_from(add_node(g, StrKey("empty"), "Label", "label:empty"), ln, StrKey("empty"))

\* mutant of BuildResult: the pending branch list is dropped
BuildResultLastnode(ln, par) == ln

\* lines 132-134
BuildResult(ln, par) == IF Len(par) > 0 THEN List(par) ELSE ln

\* -------------------------------------------- router path (lines 221-267)
\* mutant of PlaceholderType
PlaceholderTypeLabel == "Label"

\* line 226: the type of the node that stands for an unknown router name
PlaceholderType == "Router"

\* mutant of NetQuantifiedAny: the tags follow the quantifier as in the label patterns
NetQuantifiedAnyDirect(q) ==
    IF q = "AZeroOrMoreQuantifier" THEN "ZeroOrMore" ELSE "OneOrMore"

\* lines 240-244: the tag of a quantified "any" atom of the router path
NetQuantifiedAny(q) ==
    IF q = "AOneOrMoreQuantifier" THEN "ZeroOrMore" ELSE "OneOrMore"

\* lines 222-236
NetSimple(g, lastref, key, atom, names) ==
    LET rtr == atom.sym
        g1 == add_node(g, key, "QueryAtom", "atom:router:" \o rtr)
        g2 == IF rtr \notin names THEN add_node(g1, StrKey(rtr), PlaceholderType, rtr) ELSE g1
        target == IF rtr \notin names THEN StrKey(rtr) ELSE RouterKey(rtr)
    IN  Ok(add_edge(link_last(g2, lastref, key), key, target))

\* mutant of Unsupported: the atom is passed over instead of raising
UnsupportedSkipped(g, e) == Ok(g)

\* lines 247, 267: raise Exception(...)
Unsupported(g, e) == Raise(g, e)

\* lines 238-254
NetQuantified(g, lastref, key, atom) ==
    IF atom.q \in {"AOneOrMoreQuantifier", "AZeroOrMoreQuantifier"} /\ atom.inner = "AAnyAtom"
    THEN Ok(link_last(add_node(g, key, NetQuantifiedAny(atom.q),
                               IF atom.q = "AOneOrMoreQuantifier" THEN "atom:router:.*"
                               ELSE "atom:router:.+"),
                      lastref, key))
    ELSE Unsupported(g, "Unknown atom")

\* one iteration of the loop of line 221
EncodeNetAtom(g, lastref, key, atom, names) ==
    CASE atom.t = "ASimpleAtom" -> NetSimple(g, lastref, key, atom, names)
      [] atom.t = "AQuantifiedAtom" -> NetQuantified(g, lastref, key, atom)
      [] atom.t = "AAnyAtom" -> Ok(link_last(add_node(g, key, "Any", "router:."), lastref, key))
      [] OTHER -> Unsupported(g, "Unknown atom type")

\* ------------------------------------------------------------ mpls2graph
\* prepare_dataset has not been called
PoolIdle ==
    /\ queries = <<>>
    /\ workers = <<>>
    /\ qwork = <<>>
    /\ qresults = <<>>
    /\ mpc = "idle"
    /\ nqueries = 0
    /\ dataset = <<>>
    /\ nsent = 0
    /\ njoined = 0
    /\ wpc = <<>>
    /\ wquery = <<>>

Init ==
    /\ net \in Nets \cup {BaseNet}
    /\ maxq \in {0, MaxAtoms}
    /\ maxq > 0 => net = BaseNet
    /\ query = NoQuery
    /\ G = EmptyGraph
    /\ pc = "topology"
    /\ ri = 1
    /\ aj = 0
    /\ lastr = QueryKey
    /\ last = Single(QueryKey)
    /\ lastnode = Single(QueryKey)
    /\ par_nodes = <<>>
    /\ lastatom = "None"
    /\ branch_next = FALSE
    /\ pos = 1
    /\ err = "none"
    /\ PoolIdle

queryVars == <<query, last, lastnode, par_nodes, lastatom, branch_next, pos>>
ruleVars == <<ri, aj, lastr>>

\* lines 150-162
Topology ==
    /\ pc = "topology"
    /\ G' = EncodeLinks(EncodeRouters(G, net.routers), net.links)
    /\ pc' = "labels"
    /\ UNCHANGED <<net, maxq, ruleVars, queryVars, err>>
    /\ UNCHANGED poolVars

\* lines 164-167
Labels ==
    /\ pc = "labels"
    /\ G' = EncodeLabels(G, net)
    /\ pc' = "rules"
    /\ UNCHANGED <<net, maxq, ruleVars, queryVars, err>>
    /\ UNCHANGED poolVars

\* lines 172-178: the rule node of the next destination
RuleStart ==
    /\ pc = "rules"
    /\ ri <= Len(net.dests)
    /\ aj = 0
    /\ LET dest == net.dests[ri]
           i == RuleIndex(net.dests, ri)
       IN  /\ G' = EncodeRule(G, dest.rtr, i, PrimaryRule(dest))
           /\ lastr' = RuleKey(dest.rtr, i)
    /\ aj' = 1
    /\ UNCHANGED <<net, maxq, pc, ri, queryVars, err>>
    /\ UNCHANGED poolVars

\* lines 179-195: one action of the rule
RuleAction ==
    /\ pc = "rules"
    /\ ri <= Len(net.dests)
    /\ aj >= 1
    /\ aj <= Len(PrimaryRule(net.dests[ri]).actions)
    /\ LET dest == net.dests[ri]
           i == RuleIndex(net.dests, ri)
           r == EncodeAction(G, lastr, dest.rtr, i, aj - 1, PrimaryRule(dest).actions[aj])
       IN  /\ G' = r.G
           /\ err' = r.err
           /\ IF r.err = "none"
              THEN /\ lastr' = ActionKey(dest.rtr, i, aj - 1)
                   /\ aj' = aj + 1
                   /\ pc' = pc
              ELSE /\ pc' = "raised"
                   /\ UNCHANGED <<lastr, aj>>
    /\ UNCHANGED <<net, maxq, ri, queryVars>>
    /\ UNCHANGED poolVars

\* lines 197-199: the last action is connected to the output interface
RuleEnd ==
    /\ pc = "rules"
    /\ ri <= Len(net.dests)
    /\ aj > Len(PrimaryRule(net.dests[ri]).actions)
    /\ LET rule == PrimaryRule(net.dests[ri])
       IN  G' = add_edge(G, lastr, IfaceKey(rule.to[1], rule.to[2]))
    /\ ri' = ri + 1
    /\ aj' = 0
    /\ UNCHANGED <<net, maxq, pc, lastr, queryVars, err>>
    /\ UNCHANGED poolVars

\* lines 202-207: the query is parsed
ParseQuery ==
    /\ pc = "rules"
    /\ ri > Len(net.dests)
    /\ \E sh \in Shapes(maxq) :
         \E c \in [1..sh[1] -> LabelAtoms], b \in [1..sh[2] -> NetAtoms],
            d \in [1..sh[3] -> LabelAtoms], kk \in 0..MaxK :
              query' = [constr |-> c, netw |-> b, destr |-> d, k |-> kk]
    /\ pc' = "ensure"
    /\ UNCHANGED <<net, maxq, G, ruleVars, last, lastnode, par_nodes, lastatom,
                   branch_next, pos, err>>
    /\ UNCHANGED poolVars

\* lines 210-211
EnsureLabels ==
    /\ pc = "ensure"
    /\ G' = ensure_label_nodes(ensure_label_nodes(G, query.constr), query.destr)
    /\ pc' = "querynode"
    /\ UNCHANGED <<net, maxq, ruleVars, queryVars, err>>
    /\ UNCHANGED poolVars

\* lines 214-218: the Query node, and the call for the constructing pattern
QueryNode ==
    /\ pc = "querynode"
    /\ G' = add_node_k(G, QueryKey, "Query", "query", query.k)
    /\ last' = Single(QueryKey)
    /\ lastnode' = Single(QueryKey)
    /\ par_nodes' = <<>>
    /\ lastatom' = "None"
    /\ branch_next' = FALSE
    /\ pos' = 1
    /\ pc' = "constr"
    /\ UNCHANGED <<net, maxq, ruleVars, query, err>>
    /\ UNCHANGED poolVars

\* the pattern build_labels_graph_repr is walking
Pattern == IF pc = "constr" THEN query.constr ELSE query.destr

\* build_labels_graph_repr returns: line 218 assigns the result to `last` and
\* the router path follows; line 270 discards it and line 271 follows
Returns(result) ==
    IF pc = "constr"
    THEN /\ last' = result
         /\ pc' = "net"
    ELSE /\ last' = last
         /\ pc' = "return"

\* lines 79-82: the pattern is None
BuildLabelsNone ==
    /\ pc \in {"constr", "destr"}
    /\ Pattern = None
    /\ LET r == BuildEmpty(G, lastnode)
       IN  /\ G' = r.G
           /\ err' = r.err
           /\ IF r.err = "none"
              THEN Returns(Single(StrKey("empty")))
              ELSE pc' = "raised" /\ last' = last
    /\ pos' = 1
    /\ UNCHANGED <<net, maxq, ruleVars, query, lastnode, par_nodes, lastatom, branch_next>>
    /\ UNCHANGED poolVars

\* lines 87-130: one atom of the pattern
BuildLabelsAtom ==
    /\ pc \in {"constr", "destr"}
    /\ Pattern # None
    /\ pos <= Len(Pattern)
    /\ LET r == BuildAtom(G, pc, pos, Pattern[pos], lastnode, par_nodes, lastatom, branch_next)
       IN  /\ G' = r.G
           /\ err' = r.err
           /\ lastnode' = r.lastnode
           /\ par_nodes' = r.par_nodes
           /\ branch_next' = r.branch_next
           /\ IF r.err = "none"
              THEN /\ lastatom' = Pattern[pos].t
                   /\ pos' = pos + 1
                   /\ pc' = pc
              ELSE /\ pc' = "raised"
                   /\ UNCHANGED <<lastatom, pos>>
    /\ UNCHANGED <<net, maxq, ruleVars, query, last>>
    /\ UNCHANGED poolVars

\* lines 132-134: the loop is over
BuildLabelsReturn ==
    /\ pc \in {"constr", "destr"}
    /\ Pattern # None
    /\ pos > Len(Pattern)
    /\ Returns(BuildResult(lastnode, par_nodes))
    /\ pos' = 1
    /\ UNCHANGED <<net, maxq, ruleVars, query, G, lastnode, par_nodes, lastatom,
                   branch_next, err>>
    /\ UNCHANGED poolVars

\* lines 221-267: one atom of the router path
NetAtom ==
    /\ pc = "net"
    /\ pos <= Len(query.netw)
    /\ LET key == AtomKey("net", pos)
           r == EncodeNetAtom(G, last, key, query.netw[pos], name2router(net))
       IN  /\ G' = r.G
           /\ err' = r.err
           /\ IF r.err = "none"
              THEN /\ last' = Single(key)
                   /\ pos' = pos + 1
                   /\ pc' = pc
              ELSE /\ pc' = "raised"
                   /\ UNCHANGED <<last, pos>>
    /\ UNCHANGED <<net, maxq, ruleVars, query, lastnode, par_nodes, lastatom, branch_next>>
    /\ UNCHANGED poolVars

\* line 270: the call for the destructing pattern, started at `last`
NetDone ==
    /\ pc = "net"
    /\ pos > Len(query.netw)
    /\ lastnode' = last
    /\ par_nodes' = <<>>
    /\ lastatom' = "None"
    /\ branch_next' = FALSE
    /\ pos' = 1
    /\ pc' = "destr"
    /\ UNCHANGED <<net, maxq, ruleVars, query, G, last, err>>
    /\ UNCHANGED poolVars

\* line 271: return G
Return ==
    /\ pc = "return"
    /\ pc' = "done"
    /\ UNCHANGED <<net, maxq, ruleVars, queryVars, G, err>>
    /\ UNCHANGED poolVars

Next ==
    \/ Topology
    \/ Labels
    \/ RuleStart
    \/ RuleAction
    \/ RuleEnd
    \/ ParseQuery
    \/ EnsureLabels
    \/ QueryNode
    \/ BuildLabelsNone
    \/ BuildLabelsAtom
    \/ BuildLabelsReturn
    \/ NetAtom
    \/ NetDone
    \/ Return

Spec == Init /\ [][Next]_<<vars, poolVars>>

\* =================================================================== claims
ZeroOrMoreAny == QuantAtom("AZeroOrMoreQuantifier", "AAnyAtom", "")
OneOrMoreAny == QuantAtom("AOneOrMoreQuantifier", "AAnyAtom", "")
IsOneOrMoreLabel(a) ==
    a.t = "AQuantifiedAtom" /\ a.q = "AOneOrMoreQuantifier" /\ a.inner = "ASimpleAtom"

\* the constructing pattern has been encoded and its result assigned to `last`
ConstrReturned == pc \in {"net", "destr", "return", "done"}

\* the node that stands for the atom at position p of a label pattern
PatternNode(part, st, p) ==
    IF IsOneOrMoreLabel(st[p]) THEN InnerKey(part, p) ELSE AtomKey(part, p)

\* the first node of the chain of a label pattern
FirstNode(part, st) ==
    IF st = None THEN StrKey("empty") ELSE PatternNode(part, st, 1)

\* the pattern edges of a node: its edges to nodes other than labels
PatternNeighbors(g, n) == {m \in Neighbors(g, n) : m[1] # "label"}

\* the constructing pattern is `a+ b`
IsPlusThenPlain(st) ==
    /\ Len(st) = 2
    /\ IsOneOrMoreLabel(st[1])
    /\ st[2].t = "ASimpleAtom"

\* C1 (as claimed): for a constructing pattern `a+ b`, b's node has an edge
\* from a's node and an edge from the Query node.
C1_Claim ==
    (ConstrReturned /\ IsPlusThenPlain(query.constr)) =>
        /\ HasEdge(G, InnerKey("constr", 1), AtomKey("constr", 2))
        /\ HasEdge(G, QueryKey, AtomKey("constr", 2))

\* C1 (amended): for a constructing pattern `a+ b`, a's node and b's node are
\* both edged from the Query node, there is no edge from a's node to b's
\* node, b's only pattern edge on return is the one from the Query node, and
\* the call returns the unmerged branch list [a, b].
C1_BranchNotMerged ==
    (ConstrReturned /\ IsPlusThenPlain(query.constr)) =>
        /\ HasEdge(G, QueryKey, InnerKey("constr", 1))
        /\ HasEdge(G, QueryKey, AtomKey("constr", 2))
        /\ ~HasEdge(G, InnerKey("constr", 1), AtomKey("constr", 2))
        /\ (pc = "net" /\ pos = 1) =>
              /\ last = List(<<InnerKey("constr", 1), AtomKey("constr", 2)>>)
              /\ PatternNeighbors(G, AtomKey("constr", 2)) = {QueryKey}

C1_Witness ==
    /\ pc = "net"
    /\ pos = 1
    /\ IsPlusThenPlain(query.constr)
    /\ HasEdge(G, QueryKey, AtomKey("constr", 2))

\* a step of the router-path loop that encoded the plain router-name atom
\* at position pos
NetSimpleStep ==
    /\ pc = "net"
    /\ pos <= Len(query.netw)
    /\ query.netw[pos].t = "ASimpleAtom"
    /\ pos' = pos + 1

\* the router node a plain router-name atom is edged to, tagged t when the
\* name is unknown
NetSimpleEncoded(t) ==
    LET name == query.netw[pos].sym
        atom == AtomKey("net", pos)
    IN  /\ HasNode(G', atom)
        /\ G'.node[atom].ntype = "QueryAtom"
        /\ IF name \in name2router(net)
           THEN /\ HasEdge(G', atom, RouterKey(name))
                /\ G'.node[RouterKey(name)] = G.node[RouterKey(name)]
                /\ ~HasNode(G', StrKey(name)) \/ HasNode(G, StrKey(name))
           ELSE /\ HasNode(G', StrKey(name))
                /\ G'.node[StrKey(name)].ntype = t
                /\ G'.node[StrKey(name)].nlabel = name
                /\ HasEdge(G', atom, StrKey(name))

\* C2 (as claimed): a plain router-name atom of an unknown router gets a
\* placeholder node carrying the name and tagged Label, with an edge from the
\* atom's QueryAtom node; a known name is edged to the existing Router node.
C2_Claim == [][NetSimpleStep => NetSimpleEncoded("Label")]_vars

\* C2 (amended): when the atom has been encoded, the placeholder node of an
\* unknown router name is tagged Router (not Label) and carries the name, and
\* the atom's QueryAtom node has an edge to it; a known name is edged to the
\* router's existing Router node, which is left as it was.
C2_PlaceholderIsRouter == [][NetSimpleStep => NetSimpleEncoded("Router")]_vars

C2_Witness ==
    /\ pc = "net"
    /\ pos = 2
    /\ query.netw[1] = SimpleAtom("RX")
    /\ HasNode(G, StrKey("RX"))
    /\ G.node[StrKey("RX")].ntype = "Router"
    /\ HasEdge(G, AtomKey("net", 1), StrKey("RX"))

\* C3 (as claimed): registration is idempotent in every step: a node that
\* exists keeps its ntype and nlabel, whatever its key.
C3_Claim ==
    [][\A key \in DOMAIN G.node :
          /\ HasNode(G', key)
          /\ G'.node[key].ntype = G.node[key].ntype
          /\ G'.node[key].nlabel = G.node[key].nlabel]_vars

\* C4 (as claimed): with a None constructing pattern the returned graph has
\* a Query node with exactly one edge, to the node keyed "empty", and that
\* node is tagged Label.
C4_Claim ==
    (pc = "done" /\ query.constr = None) =>
        /\ Neighbors(G, QueryKey) = {StrKey("empty")}
        /\ G.node[StrKey("empty")].ntype = "Label"

\* the label keys a step adds an edge to
NewLabelEnds == {key \in UNION (G'.edge \ G.edge) : key[1] = "label"}

\* C5: whenever a step adds an edge to a label key, exactly one node tagged
\* Label stands for that label before the step, and the assertion of
\* atom_label_to_node never fails.
C5_LabelsRegistered ==
    /\ [](err # "AssertionError")
    /\ [][\A key \in NewLabelEnds :
            /\ HasNode(G, key)
            /\ G.node[key].ntype = "Label"
            /\ Cardinality({n \in DOMAIN G.node :
                   /\ G.node[n].ntype = "Label"
                   /\ G.node[n].nlabel = "label:" \o key[2]}) = 1]_vars

C5_Witness ==
    /\ pc = "done"
    /\ "L9" \notin net.labels
    /\ \E p \in DOMAIN query.constr :
         /\ IsOneOrMoreLabel(query.constr[p])
         /\ HasEdge(G, InnerKey("constr", p), LabelKey("L9"))
    /\ \E d \in DOMAIN net.dests : HasEdge(G, RuleKey(net.dests[d].rtr, 0), LabelKey("L1"))

\* ------------------------------------------------------------------- C6
\* destination d has been encoded (lines 172-199 have run for it)
RuleEncoded(d) == d \in DOMAIN net.dests /\ d < ri

\* Rule, action1, ..., actionN, output Interface of destination d
RulePath(d) ==
    LET dest == net.dests[d]
        rule == PrimaryRule(dest)
        i == RuleIndex(net.dests, d)
    IN  <<RuleKey(dest.rtr, i)>>
        \o [j \in 1..Len(rule.actions) |-> ActionKey(dest.rtr, i, j - 1)]
        \o <<IfaceKey(rule.to[1], rule.to[2])>>

LabelNeighbors(g, n) == {m \in Neighbors(g, n) : m[1] \in {"label", "nolabel"}}

\* the path is in the graph, in the table's action order, on distinct nodes
RuleChain(d) ==
    LET path == RulePath(d)
    IN  /\ \A m \in 1..(Len(path) - 1) : HasEdge(G, path[m], path[m + 1])
        /\ \A a, b \in DOMAIN path : a # b => path[a] # path[b]
        /\ Cardinality({e \in G.edge : e \subseteq Range(path)}) >= Len(path) - 1

\* the edges between two nodes of the path that are not edges of the path
Shortcuts(d) ==
    LET path == RulePath(d)
    IN  {e \in G.edge : e \subseteq Range(path)}
            \ {{path[m], path[m + 1]} : m \in 1..(Len(path) - 1)}

\* Push and Swap nodes have one edge to their label's node, Pop nodes none
ActionLabels(d) ==
    LET dest == net.dests[d]
        rule == PrimaryRule(dest)
        i == RuleIndex(net.dests, d)
    IN  \A j \in DOMAIN rule.actions :
            LET key == ActionKey(dest.rtr, i, j - 1)
            IN  /\ G.node[key].ntype = rule.actions[j].kind
                /\ LabelNeighbors(G, key) =
                       IF rule.actions[j].kind = "PopAction" THEN {}
                       ELSE {LabelKey(rule.actions[j].label)}

\* C6 (as claimed): every encoded rule's path Rule - actions - output
\* Interface is a simple path of n+1 edges with no edge between two of its
\* nodes besides the path's own; Push/Swap nodes have one label edge, Pop none.
C6_Claim ==
    \A d \in DOMAIN net.dests : RuleEncoded(d) =>
        /\ RuleChain(d)
        /\ Shortcuts(d) = {}
        /\ ActionLabels(d)

\* C6 (amended): as claimed, except that a rule whose input interface is
\* also its output interface and that has at least one action has exactly
\* one further edge between two nodes of its path: the Rule - input
\* Interface edge of line 174, which joins the two ends of the path.
C6_RuleChainShape ==
    \A d \in DOMAIN net.dests : RuleEncoded(d) =>
        LET rule == PrimaryRule(net.dests[d])
            path == RulePath(d)
        IN  /\ RuleChain(d)
            /\ Shortcuts(d) =
                   IF rule.from_ = rule.to /\ Len(rule.actions) >= 1
                   THEN {{path[1], path[Len(path)]}}
                   ELSE {}
            /\ ActionLabels(d)

C6_Witness ==
    /\ pc = "done"
    /\ \E d \in DOMAIN net.dests :
         /\ RuleEncoded(d)
         /\ Len(PrimaryRule(net.dests[d]).actions) = 2
         /\ PrimaryRule(net.dests[d]).from_ = PrimaryRule(net.dests[d]).to
         /\ HasEdge(G, RulePath(d)[1], RulePath(d)[4])
    /\ \E d \in DOMAIN net.dests :
         /\ Len(PrimaryRule(net.dests[d]).actions) = 2
         /\ PrimaryRule(net.dests[d]).from_ # PrimaryRule(net.dests[d]).to
         /\ HasEdge(G, RulePath(d)[3], RulePath(d)[4])

\* ------------------------------------------------------------------- C7
\* build_labels_graph_repr run again over pattern st from atom p on: the
\* locals it ends with (the graph already holds the nodes, so only the
\* locals are of interest)
RECURSIVE RunBuild(_, _, _, _, _, _, _, _)
RunBuild(g, part, st, p, ln, par, la, bn) ==
    IF p > Len(st) THEN Locals(g, "none", ln, par, bn)
    ELSE LET r == BuildAtom(g, part, p, st[p], ln, par, la, bn)
         IN  IF r.err # "none" THEN r
             ELSE RunBuild(r.G, part, st, p + 1, r.lastnode, r.par_nodes, st[p].t, r.branch_next)

\* the terminal node(s) the constructing-pattern encoding returned
ConstrTerminals ==
    IF query.constr = None THEN {StrKey("empty")}
    ELSE LET r == RunBuild(G, "constr", query.constr, 1, Single(QueryKey), <<>>, "None", FALSE)
         IN  Range(BuildResult(r.lastnode, r.par_nodes).ns)

\* the terminal node(s) of the router-path chain
NetTerminals ==
    IF query.netw = <<>> THEN ConstrTerminals
    ELSE {AtomKey("net", Len(query.netw))}

\* the three chains of a returned graph are concatenated
Chained ==
    /\ query.netw # <<>> =>
          \A t \in ConstrTerminals : HasEdge(G, t, AtomKey("net", 1))
    /\ \A t \in NetTerminals : HasEdge(G, t, FirstNode("destr", query.destr))

\* C7 (as claimed): for every query the three chains are concatenated in
\* textual order, also when the constructing pattern ends in an unmerged
\* branch list and the router path holds no atom: no such query makes the
\* construction fail on the list, and the returned graph holds the edges.
C7_Claim ==
    /\ err # "TypeError"
    /\ pc = "done" => Chained

\* ------------------------------------------------------------------- C8
\* the constructs mpls2graph does not support
UnsupportedLabelPattern(st) ==
    \E p \in DOMAIN st :
        \/ st[p].t \notin {"ASimpleAtom", "AAnyAtom", "AQuantifiedAtom"}
        \/ /\ st[p].t = "AQuantifiedAtom"
           /\ \/ p > 1 /\ st[p - 1].t = "ASimpleAtom"
              \/ st[p].q \notin {"AZeroOrMoreQuantifier", "AOneOrMoreQuantifier"}
              \/ st[p].q = "AZeroOrMoreQuantifier" /\ st[p].inner # "AAnyAtom"
              \/ st[p].inner \notin {"ASimpleAtom", "AAnyAtom"}

UnsupportedRouterPath(st) ==
    \E p \in DOMAIN st :
        \/ st[p].t \notin {"ASimpleAtom", "AAnyAtom", "AQuantifiedAtom"}
        \/ /\ st[p].t = "AQuantifiedAtom"
           /\ \/ st[p].q \notin {"AZeroOrMoreQuantifier", "AOneOrMoreQuantifier"}
              \/ st[p].inner # "AAnyAtom"

UnsupportedAction ==
    \E d \in DOMAIN net.dests : \E j \in DOMAIN PrimaryRule(net.dests[d]).actions :
        PrimaryRule(net.dests[d]).actions[j].kind \notin {"PushAction", "SwapAction", "PopAction"}

\* every atom of the query has its typed node
AllAtomsEncoded ==
    /\ \A p \in DOMAIN query.constr :
          /\ HasNode(G, PatternNode("constr", query.constr, p))
          /\ G.node[PatternNode("constr", query.constr, p)].ntype \in NodeType
    /\ \A p \in DOMAIN query.netw :
          /\ HasNode(G, AtomKey("net", p))
          /\ G.node[AtomKey("net", p)].ntype \in NodeType
    /\ \A p \in DOMAIN query.destr :
          /\ HasNode(G, PatternNode("destr", query.destr, p))
          /\ G.node[PatternNode("destr", query.destr, p)].ntype \in NodeType

\* C8: an error aborts mpls2graph at once: once an exception is raised no
\* further step runs and no graph is returned; a graph is returned only
\* when the network and the query hold no unsupported construct, and then
\* every atom has been encoded (none skipped).
C8_ErrorsAbort ==
    /\ err # "none" <=> pc = "raised"
    /\ pc = "raised" => ~ENABLED Next
    /\ pc \in {"return", "done"} =>
          /\ ~UnsupportedAction
          /\ ~UnsupportedLabelPattern(query.constr)
          /\ ~UnsupportedRouterPath(query.netw)
          /\ ~UnsupportedLabelPattern(query.destr)
          /\ AllAtomsEncoded

C8_Witness ==
    /\ pc = "raised"
    /\ err = "Unknown atom"
    /\ Len(query.netw) = 2
    /\ query.netw[2].t = "AQuantifiedAtom"
    /\ HasNode(G, AtomKey("net", 1))
    /\ ~HasNode(G, AtomKey("net", 2))

\* ------------------------------------------------------------------- C9
\* build_labels_graph_repr is about to walk a zero-or-more or one-or-more
\* quantified "any" atom
QuantifiedAnyNext ==
    /\ pc \in {"constr", "destr"}
    /\ Pattern # None
    /\ pos <= Len(Pattern)
    /\ Pattern[pos] \in {ZeroOrMoreAny, OneOrMoreAny}

QuantifiedAnyTag(a) == IF a = ZeroOrMoreAny THEN "ZeroOrMore" ELSE "OneOrMore"

\* the atom got its node, tagged after its quantifier
QuantifiedAnyNode ==
    /\ HasNode(G', AtomKey(pc, pos))
    /\ G'.node[AtomKey(pc, pos)].ntype = QuantifiedAnyTag(Pattern[pos])

\* the node is edged from the current node and is the new current node
QuantifiedAnyLinked ==
    /\ \A t \in Range(lastnode.ns) : HasEdge(G', t, AtomKey(pc, pos))
    /\ lastnode' = Single(AtomKey(pc, pos))
    /\ err' = "none"

\* C9 (as claimed): a quantified "any" atom, whatever precedes it, creates
\* a node tagged ZeroOrMore (OneOrMore for one-or-more), edged from the
\* current node, and makes it the current node.
C9_Claim == [][QuantifiedAnyNext => QuantifiedAnyNode /\ QuantifiedAnyLinked]_vars

\* C9 (amended): a quantified "any" atom creates its ZeroOrMore / OneOrMore
\* node unless the atom before it is a plain label atom: then the call
\* raises "Case not covered by code" and adds nothing.  The new node is
\* edged from the current node and becomes the current node when the
\* current node is one node; when the call was started at a list, add_edge
\* raises TypeError after the node was created.
C9_QuantifiedAny ==
    [][QuantifiedAnyNext =>
          IF lastatom = "ASimpleAtom"
          THEN err' = "Case not covered by code" /\ G' = G /\ pc' = "raised"
          ELSE /\ QuantifiedAnyNode
               /\ IF lastnode.list THEN err' = "TypeError" /\ pc' = "raised"
                  ELSE QuantifiedAnyLinked]_vars

C9_Witness ==
    /\ pc = "constr"
    /\ pos = 3
    /\ query.constr[1] = AnyAtom
    /\ query.constr[2] = ZeroOrMoreAny
    /\ lastnode = Single(AtomKey("constr", 2))
    /\ G.node[AtomKey("constr", 2)].ntype = "ZeroOrMore"
    /\ HasEdge(G, AtomKey("constr", 1), AtomKey("constr", 2))

\* ------------------------------------------------------------------ C10
\* the router-path loop is about to walk a quantified "any" atom
NetQuantifiedAnyNext ==
    /\ pc = "net"
    /\ pos <= Len(query.netw)
    /\ query.netw[pos] \in {ZeroOrMoreAny, OneOrMoreAny}

\* the quantified "any" nodes of the label patterns are tagged after their
\* quantifier
LabelTagsDirect ==
    \A part \in {"constr", "destr"} :
        LET st == IF part = "constr" THEN query.constr ELSE query.destr
        IN  \A p \in DOMAIN st :
                (st[p] \in {ZeroOrMoreAny, OneOrMoreAny} /\ HasNode(G, AtomKey(part, p))) =>
                    G.node[AtomKey(part, p)].ntype = QuantifiedAnyTag(st[p])

\* C10: in the router path a one-or-more "any" atom yields a node tagged
\* ZeroOrMore and a zero-or-more one a node tagged OneOrMore, the mirror
\* image of the label patterns; either node is edged from every node of
\* `last` and becomes the new `last`.
C10_MirroredTags ==
    /\ []LabelTagsDirect
    /\ [][NetQuantifiedAnyNext =>
            /\ HasNode(G', AtomKey("net", pos))
            /\ G'.node[AtomKey("net", pos)].ntype =
                   (IF query.netw[pos] = OneOrMoreAny THEN "ZeroOrMore" ELSE "OneOrMore")
            /\ \A t \in Range(last.ns) : HasEdge(G', t, AtomKey("net", pos))
            /\ last' = Single(AtomKey("net", pos))
            /\ err' = "none"]_vars

C10_Witness ==
    /\ pc = "net"
    /\ pos = 2
    /\ query.constr = <<QuantAtom("AOneOrMoreQuantifier", "ASimpleAtom", "L9"), OneOrMoreAny>>
    /\ query.netw[1] = OneOrMoreAny
    /\ G.node[AtomKey("net", 1)].ntype = "ZeroOrMore"
    /\ G.node[AtomKey("constr", 2)].ntype = "OneOrMore"
    /\ HasEdge(G, InnerKey("constr", 1), AtomKey("net", 1))
    /\ last = Single(AtomKey("net", 1))

\* ===================================================== prepare_dataset
\* mpls2graph(net, q, k) as one call: the steps above run to the end, as
\* graph2torch_worker calls it (neural_network_qpred.py line 119)
\* F(v), with v computed once
Bind(v, F(_)) == CHOOSE y \in {F(x) : x \in {v}} : TRUE

RECURSIVE RunActions(_, _, _, _, _, _)
RunActions(g, lastk, rtr, i, j, acts) ==
    IF j > Len(acts) THEN [G |-> g, err |-> "none", last |-> lastk]
    ELSE Bind(EncodeAction(g, lastk, rtr, i, j - 1, acts[j]), LAMBDA r :
           IF r.err # "none" THEN [G |-> r.G, err |-> r.err, last |-> lastk]
           ELSE RunActions(r.G, ActionKey(rtr, i, j - 1), rtr, i, j + 1, acts))

\* lines 169-199
RECURSIVE RunDests(_, _, _)
RunDests(g, dests, d) ==
    IF d > Len(dests) THEN Ok(g)
    ELSE LET rule == PrimaryRule(dests[d])
             i == RuleIndex(dests, d)
         IN  Bind(EncodeRule(g, dests[d].rtr, i, rule), LAMBDA g1 :
             Bind(RunActions(g1, RuleKey(dests[d].rtr, i), dests[d].rtr, i, 1, rule.actions),
                  LAMBDA r :
               IF r.err # "none" THEN Raise(r.G, r.err)
               ELSE Bind(add_edge(r.G, r.last, IfaceKey(rule.to[1], rule.to[2])),
                         LAMBDA g2 : RunDests(g2, dests, d + 1))))

\* lines 221-267
RECURSIVE RunNet(_, _, _, _, _)
RunNet(g, lastref, st, p, names) ==
    IF p > Len(st) THEN [G |-> g, err |-> "none", last |-> lastref]
    ELSE Bind(EncodeNetAtom(g, lastref, AtomKey("net", p), st[p], names), LAMBDA r :
           IF r.err # "none" THEN [G |-> r.G, err |-> r.err, last |-> lastref]
           ELSE RunNet(r.G, Single(AtomKey("net", p)), st, p + 1, names))

\* build_labels_graph_repr(G, lastnode, st) as one call
CallBuild(g, part, st, ln) ==
    IF st = None
    THEN Bind(BuildEmpty(g, ln), LAMBDA r :
           [G |-> r.G, err |-> r.err, last |-> Single(StrKey("empty"))])
    ELSE Bind(RunBuild(g, part, st, 1, ln, <<>>, "None", FALSE), LAMBDA r :
           [G |-> r.G, err |-> r.err, last |-> BuildResult(r.lastnode, r.par_nodes)])

mpls2graph(n, q) ==
    Bind(EncodeLabels(EncodeLinks(EncodeRouters(EmptyGraph, n.routers), n.links), n),
         LAMBDA g1 :
    Bind(RunDests(g1, n.dests, 1), LAMBDA r2 :
      IF r2.err # "none" THEN r2
      ELSE
    Bind(ensure_label_nodes(ensure_label_nodes(r2.G, q.constr), q.destr), LAMBDA g3 :
    Bind(add_node_k(g3, QueryKey, "Query", "query", q.k), LAMBDA g4 :
    Bind(CallBuild(g4, "constr", q.constr, Single(QueryKey)), LAMBDA r5 :
      IF r5.err # "none" THEN Raise(r5.G, r5.err)
      ELSE
    Bind(RunNet(r5.G, r5.last, q.netw, 1, name2router(n)), LAMBDA r6 :
      IF r6.err # "none" THEN Raise(r6.G, r6.err)
      ELSE
    Bind(CallBuild(r6.G, "destr", q.destr, r6.last), LAMBDA r7 :
      Raise(r7.G, r7.err))))))))

\* the call and the stepwise run above end alike
Mpls2graphAgrees ==
    /\ pc = "done" => mpls2graph(net, query) = Ok(G)
    /\ pc = "raised" => mpls2graph(net, query) = Raise(G, err)

\* the queries a json file may hold: `<> R1 <>`, `<.*> . <L9>`, and
\* `<L1 .*> R1 <>`, whose constructing pattern mpls2graph does not cover
PoolQueries ==
    {[constr |-> None, netw |-> <<SimpleAtom("R1")>>, destr |-> None, k |-> 0],
     [constr |-> <<QuantAtom("AZeroOrMoreQuantifier", "AAnyAtom", "")>>,
      netw |-> <<AnyAtom>>, destr |-> <<SimpleAtom("L9")>>, k |-> 1],
     [constr |-> <<SimpleAtom("L1"), QuantAtom("AZeroOrMoreQuantifier", "AAnyAtom", "")>>,
      netw |-> <<SimpleAtom("R1")>>, destr |-> None, k |-> 0]}

\* line 119: what mpls2graph(networks[query["network"]], q, int(k)) ends
\* with for each query, "none" if it returns a graph
Outcome == [q \in PoolQueries |-> mpls2graph(BaseNet, q).err]

\* lines 127-129 and 152-154: empty queues, the queries loaded
PoolInit ==
    /\ net = BaseNet
    /\ maxq = 0
    /\ query = NoQuery
    /\ G = EmptyGraph
    /\ pc = "topology"
    /\ ri = 1
    /\ aj = 0
    /\ lastr = QueryKey
    /\ last = Single(QueryKey)
    /\ lastnode = Single(QueryKey)
    /\ par_nodes = <<>>
    /\ lastatom = "None"
    /\ branch_next = FALSE
    /\ pos = 1
    /\ err = "none"
    /\ queries \in UNION {[1..n -> PoolQueries] : n \in 0..MaxQueries}
    /\ workers = <<>>
    /\ qwork = <<>>
    /\ qresults = <<>>
    /\ mpc = "start"
    /\ nqueries = 0
    /\ dataset = <<>>
    /\ nsent = 0
    /\ njoined = 0
    /\ wpc = <<>>
    /\ wquery = <<>>

\* lines 146-149: one more worker started; range(mp.cpu_count()) ends after
\* any number of workers from 1 to MaxWorkers
StartWorker ==
    /\ mpc = "start"
    /\ Len(workers) < MaxWorkers
    /\ workers' = Append(workers, Len(workers) + 1)
    /\ wpc' = Append(wpc, "get")
    /\ wquery' = Append(wquery, 0)
    /\ \/ Len(workers) + 1 < MaxWorkers /\ mpc' = "start"
       \/ mpc' = "push"
    /\ UNCHANGED <<queries, qwork, qresults, nqueries, dataset, nsent, njoined>>
    /\ UNCHANGED vars

\* lines 158-160
PushQuery ==
    /\ mpc = "push"
    /\ nqueries < Len(queries)
    /\ qwork' = Append(qwork, <<nqueries + 1>>)
    /\ nqueries' = nqueries + 1
    /\ UNCHANGED <<queries, workers, qresults, mpc, dataset, nsent, njoined, wpc, wquery>>
    /\ UNCHANGED vars

\* lines 163-164: one None per worker, after the last query
PushSentinel ==
    /\ mpc = "push"
    /\ nqueries = Len(queries)
    /\ nsent < Len(workers)
    /\ qwork' = Append(qwork, None)
    /\ nsent' = nsent + 1
    /\ mpc' = IF nsent + 1 = Len(workers) THEN "collect" ELSE "push"
    /\ UNCHANGED <<queries, workers, qresults, nqueries, dataset, njoined, wpc, wquery>>
    /\ UNCHANGED vars

\* lines 166-167: qresults.get() blocks while the queue is empty
Collect ==
    /\ mpc = "collect"
    /\ Len(dataset) < nqueries
    /\ qresults # <<>>
    /\ dataset' = Append(dataset, Head(qresults))
    /\ qresults' = Tail(qresults)
    /\ UNCHANGED <<queries, workers, qwork, mpc, nqueries, nsent, njoined, wpc, wquery>>
    /\ UNCHANGED vars

\* lines 170-171: join returns once the worker process has ended
Join ==
    /\ mpc = "collect"
    /\ Len(dataset) = nqueries
    /\ njoined < Len(workers)
    /\ wpc[workers[njoined + 1]] \in {"exited", "dead"}
    /\ njoined' = njoined + 1
    /\ mpc' = IF njoined + 1 = Len(workers) THEN "shutdown" ELSE "collect"
    /\ UNCHANGED <<queries, workers, qwork, qresults, nqueries, dataset, nsent, wpc, wquery>>
    /\ UNCHANGED vars

\* lines 173-174
ReturnDataset ==
    /\ mpc = "shutdown"
    /\ mpc' = "done"
    /\ UNCHANGED <<queries, workers, qwork, qresults, nqueries, dataset, nsent,
                   njoined, wpc, wquery>>
    /\ UNCHANGED vars

\* lines 115-117: qwork.get() blocks while the queue is empty; None ends the loop
WorkerGet(w) ==
    /\ wpc[w] = "get"
    /\ qwork # <<>>
    /\ qwork' = Tail(qwork)
    /\ IF Head(qwork) = None
       THEN wpc' = [wpc EXCEPT ![w] = "exited"] /\ UNCHANGED wquery
       ELSE /\ wpc' = [wpc EXCEPT ![w] = "build"]
            /\ wquery' = [wquery EXCEPT ![w] = Head(qwork)[1]]
    /\ UNCHANGED <<queries, workers, qresults, mpc, nqueries, dataset, nsent, njoined>>
    /\ UNCHANGED vars

\* lines 118-121: nothing catches an exception of mpls2graph, which ends the
\* process before line 122
WorkerBuild(w) ==
    /\ wpc[w] = "build"
    /\ wpc' = [wpc EXCEPT ![w] =
                 IF Outcome[queries[wquery[w]]] = "none" THEN "put" ELSE "dead"]
    /\ UNCHANGED <<queries, workers, qwork, qresults, mpc, nqueries, dataset, nsent,
                   njoined, wquery>>
    /\ UNCHANGED vars

\* line 122
WorkerPut(w) ==
    /\ wpc[w] = "put"
    /\ qresults' = Append(qresults, wquery[w])
    /\ wpc' = [wpc EXCEPT ![w] = "get"]
    /\ UNCHANGED <<queries, workers, qwork, mpc, nqueries, dataset, nsent, njoined, wquery>>
    /\ UNCHANGED vars

PoolNext ==
    \/ StartWorker
    \/ PushQuery
    \/ PushSentinel
    \/ Collect
    \/ Join
    \/ ReturnDataset
    \/ \E w \in 1..Len(workers) : WorkerGet(w)
    \/ \E w \in 1..Len(workers) : WorkerBuild(w)
    \/ \E w \in 1..Len(workers) : WorkerPut(w)

\* the steps of the main process and of worker w
Main == StartWorker \/ PushQuery \/ PushSentinel \/ Collect \/ Join \/ ReturnDataset
Worker(w) == w <= Len(workers) /\ (WorkerGet(w) \/ WorkerBuild(w) \/ WorkerPut(w))

\* the operating system schedules every process that can take a step
PoolSpec ==
    /\ PoolInit
    /\ [][PoolNext]_<<vars, poolVars>>
    /\ WF_<<vars, poolVars>>(Main)
    /\ \A w \in 1..MaxWorkers : WF_<<vars, poolVars>>(Worker(w))

\* ------------------------------------------------------------------ C11
NoQueryRaises ==
    \A i \in 1..Len(queries) : Outcome[queries[i]] = "none"

\* prepare_dataset has returned one entry per query, every worker has left
\* its loop through a None sentinel, and both queues are drained
PoolDone ==
    /\ mpc = "done"
    /\ Len(dataset) = Len(queries)
    /\ \A i \in 1..Len(queries) :
         Cardinality({p \in 1..Len(dataset) : dataset[p] = i}) = 1
    /\ \A w \in 1..Len(workers) : wpc[w] = "exited"
    /\ njoined = Len(workers)
    /\ qwork = <<>>
    /\ qresults = <<>>

\* C11: prepare_dataset's worker pool always terminates with exactly one
\* dataset entry per query, also when mpls2graph raises inside a worker:
\* before prepare_dataset has returned some process can still take a step,
\* and when it has returned every query has exactly one entry, every worker
\* has received its None and every join has returned.
C11_Claim ==
    /\ mpc # "done" => ENABLED PoolNext
    /\ mpc = "done" => PoolDone

\* the same holds of the files none of whose queries makes mpls2graph raise
PoolCompletesUnlessRaise == NoQueryRaises => C11_Claim
PoolReturnsUnlessRaise == NoQueryRaises => <>PoolDone

\* the main process waits for a result that no worker will put
PoolStuck ==
    /\ mpc = "collect"
    /\ Len(dataset) < nqueries
    /\ qresults = <<>>
    /\ \E w \in 1..Len(workers) : wpc[w] = "dead"
    /\ ~ENABLED PoolNext

====
